---- MODULE Spec2Model ----
(***************************************************************************)
(* Model of day-1/ptrs.c: an int array on the stack, a pointer into it,    *)
(* dereference, pointer increment (scaled by sizeof(int)) and printf.      *)
(*                                                                         *)
(* Three specifications share the state:                                   *)
(*   Spec      main() exactly as written (lines 32-36);                    *)
(*   OpsSpec   the statements of main used as operations in any order      *)
(*             (read_value = *ptr, advance = ptr++, plus write_value and   *)
(*             read_address, which the source only has in comments);       *)
(*   ScenSpec  the fixed end-to-end call sequence.                         *)
(***************************************************************************)
EXTENDS Integers, Sequences, FiniteSets

VARIABLES
    base,      \* address of arr[0]; chosen by the platform
    width,     \* sizeof(int); chosen by the platform
    arr,       \* int arr[] = {10,20,30,40}
    past,      \* the words of memory that follow arr (unknown contents)
    ptr,       \* int* ptr : the address it holds
    pc,        \* position in main
    out,       \* lines written to stdout
    op,        \* last operation performed
    ret,       \* what the last operation produced
    advances,  \* number of ptr++ executed
    step,      \* number of scenario calls made
    written    \* <<position, v>>: the last value stored at each position

vars == <<base, width, arr, past, ptr, pc, out, op, ret, advances, step, written>>

----------------------------------------------------------------------------
(* Bounds                                                                   *)

MaxBaseSlot == 4      \* candidate stack addresses for arr
MaxAdvance  == 5      \* cap on the number of ptr++ in OpsSpec

----------------------------------------------------------------------------
(* The platform                                                             *)

SizeofIntChoices == {2, 4, 8}
Bases == {256 * k : k \in 1..MaxBaseSlot}
Junk == {0, -1}
WriteVals == {99, 100}

ArrInit == <<10, 20, 30, 40>>
ArrLen == Len(ArrInit)

\* 1-based positions of the words after arr that a capped pointer can reach
PastDom == (ArrLen + 1)..(MaxAdvance + 1)

----------------------------------------------------------------------------
(* Pointer primitives                                                       *)

\* ptr++ on an int*: the address grows by sizeof(int).  No comparison with
\* the end of arr is made, at index 3 or anywhere else.
PtrIncByte(p, w) == p + 1
PtrInc(p, w) == p + w

\* element index designated by address p (0-based)
Index(p) == (p - base) \div width

InBounds(p) == Index(p) \in 0..(ArrLen - 1) /\ p = base + Index(p) * width

\* *ptr as an rvalue.  Inside arr it is the element.  Outside arr the read
\* is undefined in C: nothing rejects it and it yields whatever the memory
\* after the array holds, which the platform chooses (past).
DerefNext(p) ==
    LET i == Index(p) + 1 IN
    IF i + 1 \in 1..ArrLen THEN arr[i + 1]
    ELSE IF i + 1 \in DOMAIN past THEN past[i + 1] ELSE 0
Deref(p) ==
    LET i == Index(p) IN
    IF i + 1 \in 1..ArrLen THEN arr[i + 1]
    ELSE IF i + 1 \in DOMAIN past THEN past[i + 1] ELSE 0

\* printf("%d\n", v): the decimal text of v
DigitChar(d) == <<"0", "1", "2", "3", "4", "5", "6", "7", "8", "9">>[d + 1]
RECURSIVE DecDigits(_)
DecDigits(n) == IF n < 10 THEN <<DigitChar(n)>>
                ELSE Append(DecDigits(n \div 10), DigitChar(n % 10))
FormatD(v) == IF v < 0 THEN <<"-">> \o DecDigits(-v) ELSE DecDigits(v)

\* printf("%p\n", p): "0x" and the hexadecimal text of the address
HexChar(d) == <<"0", "1", "2", "3", "4", "5", "6", "7", "8", "9",
                "a", "b", "c", "d", "e", "f">>[d + 1]
RECURSIVE HexDigits(_)
HexDigits(n) == IF n < 16 THEN <<HexChar(n)>>
                ELSE Append(HexDigits(n \div 16), HexChar(n % 16))
FormatP(a) == <<"0", "x">> \o HexDigits(a)

NoRet == [kind |-> "none", val |-> 0]
ValueRet(v) == [kind |-> "value", val |-> v]
AddressRet(a) == [kind |-> "address", val |-> a]

----------------------------------------------------------------------------
(* main() as written                                                        *)

Platform ==
    /\ base \in Bases
    /\ width \in SizeofIntChoices
    /\ past \in [PastDom -> Junk]

Init ==
    /\ Platform
    /\ arr = ArrInit
    /\ ptr = base
    /\ pc = "l34"
    /\ out = <<>>
    /\ op = "none"
    /\ ret = NoRet
    /\ advances = 0
    /\ step = 0
    /\ written = {}

PrintFirst ==
    /\ pc = "l34"
    /\ out' = Append(out, FormatD(Deref(ptr)))
    /\ op' = "read_value"
    /\ ret' = ValueRet(Deref(ptr))
    /\ pc' = "l35"
    /\ UNCHANGED <<base, width, arr, past, ptr, advances, step, written>>

Increment ==
    /\ pc = "l35"
    /\ ptr' = PtrInc(ptr, width)
    /\ advances' = advances + 1
    /\ op' = "advance"
    /\ ret' = NoRet
    /\ pc' = "l36"
    /\ UNCHANGED <<base, width, arr, past, out, step, written>>

\* line 36 printing the pointer instead of the pointee
PrintSecondAddress ==
    /\ pc = "l36"
    /\ out' = Append(out, FormatP(ptr))
    /\ op' = "read_address"
    /\ ret' = AddressRet(ptr)
    /\ pc' = "done"
    /\ UNCHANGED <<base, width, arr, past, ptr, advances, step, written>>

PrintSecond ==
    /\ pc = "l36"
    /\ out' = Append(out, FormatD(Deref(ptr)))
    /\ op' = "read_value"
    /\ ret' = ValueRet(Deref(ptr))
    /\ pc' = "done"
    /\ UNCHANGED <<base, width, arr, past, ptr, advances, step, written>>

Next == PrintFirst \/ Increment \/ PrintSecond

Spec == Init /\ [][Next]_vars

LiveSpec == Spec /\ WF_vars(Next)

----------------------------------------------------------------------------
(* The statements as operations, called in any order                        *)

OutOfBoundsRet == [kind |-> "OutOfBounds", val |-> 0]

\* *ptr = v inside arr
Store(a, p, v) == [a EXCEPT ![Index(p) + 1] = v]

\* history of stores: position i now holds v
Record(w, i, v) == {x \in w : x[1] # i} \cup {<<i, v>>}

OpsInit ==
    /\ Platform
    /\ arr = ArrInit
    /\ ptr = base
    /\ pc = "api"
    /\ out = <<>>
    /\ op = "none"
    /\ ret = NoRet
    /\ advances = 0
    /\ step = 0
    /\ written = {}

\* a read that also moves the pointer (*ptr++)
ReadValueConsuming ==
    /\ advances < MaxAdvance
    /\ op' = "read_value"
    /\ ret' = ValueRet(Deref(ptr))
    /\ ptr' = PtrInc(ptr, width)
    /\ advances' = advances + 1
    /\ UNCHANGED <<base, width, arr, past, pc, out, step, written>>

\* read_value: the expression *ptr of lines 34 and 36
ReadValue ==
    /\ op' = "read_value"
    /\ ret' = ValueRet(Deref(ptr))
    /\ UNCHANGED <<base, width, arr, past, ptr, pc, out, advances, step, written>>

\* advance with the bounds check the source does not have
AdvanceChecked ==
    /\ advances < MaxAdvance
    /\ op' = "advance"
    /\ advances' = advances + 1
    /\ IF Index(ptr) + 1 < ArrLen
          THEN ptr' = PtrInc(ptr, width) /\ ret' = NoRet
          ELSE ptr' = ptr /\ ret' = OutOfBoundsRet
    /\ UNCHANGED <<base, width, arr, past, pc, out, step, written>>

\* advance: ptr++ of line 35; nothing checks the index
Advance ==
    /\ advances < MaxAdvance
    /\ op' = "advance"
    /\ advances' = advances + 1
    /\ ptr' = PtrInc(ptr, width)
    /\ ret' = NoRet
    /\ UNCHANGED <<base, width, arr, past, pc, out, step, written>>

\* write_value(v): *ptr = v, defined while ptr designates an element; the
\* assignment expression has the value stored
WriteValue ==
    /\ InBounds(ptr)
    /\ \E v \in WriteVals :
          /\ arr' = Store(arr, ptr, v)
          /\ ret' = ValueRet(v)
          /\ written' = Record(written, Index(ptr) + 1, v)
    /\ op' = "write_value"
    /\ UNCHANGED <<base, width, past, ptr, pc, out, advances, step>>

\* read_address: the address ptr holds
ReadAddress ==
    /\ op' = "read_address"
    /\ ret' = AddressRet(ptr)
    /\ UNCHANGED <<base, width, arr, past, ptr, pc, out, advances, step, written>>

OpsNext == ReadValue \/ Advance \/ WriteValue \/ ReadAddress

OpsSpec == OpsInit /\ [][OpsNext]_vars

----------------------------------------------------------------------------
(* The end-to-end call sequence                                             *)

Call(name, v) == [name |-> name, arg |-> v]

Scenario == <<Call("read_value", 0), Call("advance", 0), Call("read_value", 0),
              Call("write_value", 99), Call("read_value", 0),
              Call("advance", 0), Call("advance", 0), Call("read_value", 0),
              Call("advance", 0)>>

ScenInit ==
    /\ Platform
    /\ arr = ArrInit
    /\ ptr = base
    /\ pc = "scenario"
    /\ out = <<>>
    /\ op = "none"
    /\ ret = NoRet
    /\ advances = 0
    /\ step = 0
    /\ written = {}

ScenPending(name) == step < Len(Scenario) /\ Scenario[step + 1].name = name

\* printf("%d\n", *ptr)
ScenRead ==
    /\ ScenPending("read_value")
    /\ out' = Append(out, FormatD(Deref(ptr)))
    /\ op' = "read_value"
    /\ ret' = ValueRet(Deref(ptr))
    /\ step' = step + 1
    /\ UNCHANGED <<base, width, arr, past, ptr, pc, advances, written>>

\* ptr++ with the bounds check the source does not have
ScenAdvanceChecked ==
    /\ ScenPending("advance")
    /\ advances' = advances + 1
    /\ op' = "advance"
    /\ IF Index(ptr) + 1 < ArrLen
          THEN ptr' = PtrInc(ptr, width) /\ ret' = NoRet
          ELSE ptr' = ptr /\ ret' = OutOfBoundsRet
    /\ step' = step + 1
    /\ UNCHANGED <<base, width, arr, past, pc, out, written>>

\* ptr++
ScenAdvance ==
    /\ ScenPending("advance")
    /\ ptr' = PtrInc(ptr, width)
    /\ advances' = advances + 1
    /\ op' = "advance"
    /\ ret' = NoRet
    /\ step' = step + 1
    /\ UNCHANGED <<base, width, arr, past, pc, out, written>>

\* *ptr = v
ScenWrite ==
    /\ ScenPending("write_value")
    /\ InBounds(ptr)
    /\ arr' = Store(arr, ptr, Scenario[step + 1].arg)
    /\ op' = "write_value"
    /\ ret' = ValueRet(Scenario[step + 1].arg)
    /\ written' = Record(written, Index(ptr) + 1, Scenario[step + 1].arg)
    /\ step' = step + 1
    /\ UNCHANGED <<base, width, past, ptr, pc, out, advances>>

ScenNext == ScenRead \/ ScenAdvance \/ ScenWrite

ScenSpec == ScenInit /\ [][ScenNext]_vars

----------------------------------------------------------------------------
(* Claims                                                                   *)

LastIndex == ArrLen - 1

C2_OneAdvance ==
    /\ pc \in {"l36", "done"} =>
          /\ Deref(ptr) = 20
          /\ ptr - base = width
          /\ ptr - base # 1
    /\ pc = "done" => out[2] = <<"2", "0">>

C2_Witness == pc = "done" /\ op = "read_value" /\ advances = 1

\* C3: in the initial state (arr = {10,20,30,40}, ptr at index 0) the
\* dereference gives 10, and that is the first line printed.
C3_InitialRead ==
    /\ pc = "l34" => (ptr = base /\ arr = ArrInit /\ Deref(ptr) = 10)
    /\ pc # "l34" => out[1] = <<"1", "0">>

C3_Witness == pc = "l35" /\ ret = ValueRet(10) /\ Len(out) = 1

\* C4: in every state reached by any sequence of read_value, read_address,
\* advance and write_value, the address in ptr is the address of arr plus
\* (number of advances) * sizeof(int).
C4_AddressInvariant ==
    /\ ptr = base + advances * width
    /\ Index(ptr) = advances

C4_Witness == op = "write_value" /\ advances = LastIndex /\ written # {}

\* C5 (as stated): a run prints exactly two lines, the dereferenced value
\* and then the raw address of the pointer.
C5_ValueThenAddress ==
    pc = "done" =>
        /\ Len(out) = 2
        /\ out[1] = FormatD(Deref(base))
        /\ out[2] = FormatP(ptr)

\* C5 (amended): a run prints exactly two lines, both of them dereferenced
\* values in decimal: the element at index 0, then the element at index 1;
\* no address is printed.
C5_TwoValueLines ==
    /\ Len(out) <= 2
    /\ pc = "done" =>
          /\ Len(out) = 2
          /\ out[1] = FormatD(arr[1])
          /\ out[2] = FormatD(arr[2])
          /\ \A i \in 1..Len(out) : out[i] # FormatP(ptr) /\ out[i] # FormatP(base)

C5_Witness == pc = "done" /\ Len(out) = 2

\* C6: after write_value(v) at an index, every read_value taken with the
\* pointer at that index returns v, until another write_value at that
\* index; write_value(100) at index 0 makes read_value at index 0 give 100.
C6_WriteVisible ==
    /\ \A w \in written : arr[w[1]] = w[2]
    /\ op = "read_value" =>
          \A w \in written : Index(ptr) + 1 = w[1] => ret = ValueRet(w[2])

C6_Witness ==
    /\ op = "read_value"
    /\ advances = 0
    /\ <<1, 100>> \in written
    /\ ret = ValueRet(100)

\* C7: read_value changes neither the array nor the pointer, and a
\* read_value that follows a read_value returns the same value.
C7_ReadHasNoSideEffect ==
    [][op' = "read_value" =>
          /\ arr' = arr
          /\ past' = past
          /\ ptr' = ptr
          /\ advances' = advances
          /\ op = "read_value" => ret' = ret]_vars

C7_Witness == op = "read_value" /\ advances = 2 /\ ret = ValueRet(30)

C10_MainSafety ==
    /\ arr = <<10, 20, 30, 40>>
    /\ pc \in {"l34", "l36"} => InBounds(ptr)
    /\ pc = "l34" => (out = <<>> /\ advances = 0)
    /\ pc = "l35" => (out = <<FormatD(10)>> /\ advances = 0 /\ op = "read_value")
    /\ pc = "l36" => (out = <<FormatD(10)>> /\ advances = 1 /\ op = "advance")
    /\ pc = "done" =>
          /\ out = <<FormatD(10), FormatD(20)>>
          /\ advances = 1
          /\ InBounds(ptr) /\ Index(ptr) = 1
          /\ op = "read_value"

C10_MainRun == []C10_MainSafety /\ <>[](pc = "done")

C10_Witness == pc = "done" /\ Index(ptr) = 1 /\ Len(out) = 2

====
